---- MODULE Spec2Model ----
(***************************************************************************)
(* Model of docs/back_end.py: the /api/search endpoint (search_providers)  *)
(* and its connection helper (get_db_conn).                                *)
(*                                                                         *)
(* A character is its Unicode code point and a string the sequence of its  *)
(* characters.  A whole number read from the request is its sign and its   *)
(* decimal digits; a float is the decimal it was written as (digits m and  *)
(* exponent e: m * 10^e), or an infinity, or nan.  Where the code compares *)
(* doubles, the decimal is compared with the point halfway between the     *)
(* two doubles that decide the comparison.  A distance is the double the   *)
(* code computes, as its exact decimal.                                    *)
(***************************************************************************)
EXTENDS Integers, Sequences, FiniteSets, TLC

(***************************************************************************)
(* Bounds of the model.                                                    *)
(***************************************************************************)
MaxProviders == 2
MaxRequests == 2

(***************************************************************************)
(* Program constants.                                                      *)
(***************************************************************************)
RESULTS_PER_PAGE == 20
DefaultRadius == 25
DefaultOffset == 0

(***************************************************************************)
(* Values of the request: request.args.get(k) is either missing (None) or  *)
(* a string.                                                               *)
(***************************************************************************)
MISSING == <<-1>>

\* sys.get_int_max_str_digits(): int() refuses a longer run of digits.
MaxStrDigits == 4300

\* The characters with a decimal digit value (Unicode 14, category Nd) come
\* in runs of ten, 0 to 9; these are the zeros.
DigitZeros ==
  {48, 1632, 1776, 1984, 2406, 2534, 2662, 2790, 2918, 3046, 3174, 3302, 3430,
   3558, 3664, 3792, 3872, 4160, 4240, 6112, 6160, 6470, 6608, 6784, 6800,
   6992, 7088, 7232, 7248, 42528, 43216, 43264, 43472, 43504, 43600, 44016,
   65296, 66720, 68912, 69734, 69872, 69942, 70096, 70384, 70736, 70864,
   71248, 71360, 71472, 71904, 72016, 72784, 73040, 73120, 92768, 92864,
   93008, 120782, 120792, 120802, 120812, 120822, 123200, 123632, 125264,
   130032}

IsDigit(c) == \E z \in DigitZeros : z <= c /\ c <= z + 9

DigitVal(c) == c - (CHOOSE z \in DigitZeros : z <= c /\ c <= z + 9)

\* The characters float() and int() strip from both ends.
IsSpace(c) ==
  c \in (9..13) \cup {32, 133, 160, 5760} \cup (8192..8202)
        \cup {8232, 8233, 8239, 8287, 12288}

Strip(s) ==
  IF \A i \in 1..Len(s) : IsSpace(s[i]) THEN <<>>
  ELSE LET lo == CHOOSE i \in 1..Len(s) : ~IsSpace(s[i]) /\ \A j \in 1..(i - 1) : IsSpace(s[j])
           hi == CHOOSE i \in 1..Len(s) : ~IsSpace(s[i]) /\ \A j \in (i + 1)..Len(s) : IsSpace(s[j])
       IN SubSeq(s, lo, hi)

\* An underscore (95) is allowed between two digits only, and is dropped.
UnderscoresOk(s) ==
  \A i \in 1..Len(s) :
    s[i] = 95 => i > 1 /\ i < Len(s) /\ IsDigit(s[i - 1]) /\ IsDigit(s[i + 1])

Ungrouped(s) == SelectSeq(s, LAMBDA c : c # 95)

AllDigits(s) == \A i \in 1..Len(s) : IsDigit(s[i])

\* The digits of a run of digit characters, most significant first.
DigitVals(s) == [i \in 1..Len(s) |-> DigitVal(s[i])]

NoLeadingZeros(d) ==
  IF \A i \in 1..Len(d) : d[i] = 0 THEN <<>>
  ELSE SubSeq(d, CHOOSE i \in 1..Len(d) : d[i] # 0 /\ \A j \in 1..(i - 1) : d[j] = 0,
              Len(d))

\* The number a short run of digits writes, and the digits of a number.
RECURSIVE DigitsValue(_)
DigitsValue(d) ==
  IF Len(d) = 0 THEN 0
  ELSE 10 * DigitsValue(SubSeq(d, 1, Len(d) - 1)) + d[Len(d)]

RECURSIVE Digits(_)
Digits(n) == IF n = 0 THEN <<>> ELSE Append(Digits(n \div 10), n % 10)

\* A leading "+" (43) or "-" (45).
Unsigned(s) == IF Len(s) > 0 /\ s[1] \in {43, 45} THEN SubSeq(s, 2, Len(s)) ELSE s

Sign(s) == IF Len(s) > 0 /\ s[1] = 45 THEN -1 ELSE 1

\* The position of the first "." (46), or 0.
DotAt(s) == IF \E i \in 1..Len(s) : s[i] = 46
            THEN CHOOSE i \in 1..Len(s) : s[i] = 46 /\ \A j \in 1..(i - 1) : s[j] # 46
            ELSE 0

\* The position of the first "e" or "E" (101, 69), or 0.
ExpAt(s) == IF \E i \in 1..Len(s) : s[i] \in {69, 101}
            THEN CHOOSE i \in 1..Len(s) :
                   s[i] \in {69, 101} /\ \A j \in 1..(i - 1) : s[j] \notin {69, 101}
            ELSE 0

Lower(s) == [i \in 1..Len(s) |-> IF s[i] \in 65..90 THEN s[i] + 32 ELSE s[i]]

\* The exponent a run of digits writes; beyond nine digits it is out of any
\* double's range whatever the mantissa, and 10^9 stands for it.
ExpValue(s) ==
  LET d == NoLeadingZeros(DigitVals(s))
  IN IF Len(d) > 9 THEN 1000000000 ELSE DigitsValue(d)

NotAFloat == [ok |-> FALSE, kind |-> "nan", sign |-> 1, m |-> <<>>, e |-> 0]

Finite(sign, m, e) == [ok |-> TRUE, kind |-> "finite", sign |-> sign, m |-> m, e |-> e]

Infinite(sign) == [ok |-> TRUE, kind |-> "inf", sign |-> sign, m |-> <<>>, e |-> 0]

NaN == [ok |-> TRUE, kind |-> "nan", sign |-> 1, m |-> <<>>, e |-> 0]

\* The number of digits before the decimal point of m * 10^e (m without
\* leading zeros), and the i-th digit of m followed by zeros.
Mag(f) == Len(f.m) + f.e

DigitAt(d, i) == IF i <= Len(d) THEN d[i] ELSE 0

Max(x, y) == IF x > y THEN x ELSE y

Min(x, y) == IF x < y THEN x ELSE y

\* |a| < |b| for two finite decimals.
Below(a, b) ==
  IF b.m = <<>> THEN FALSE
  ELSE IF a.m = <<>> THEN TRUE
  ELSE \/ Mag(a) < Mag(b)
       \/ /\ Mag(a) = Mag(b)
          /\ \E i \in 1..Max(Len(a.m), Len(b.m)) :
               /\ DigitAt(a.m, i) < DigitAt(b.m, i)
               /\ \A j \in 1..(i - 1) : DigitAt(a.m, j) = DigitAt(b.m, j)

\* Halfway between the largest double and 2^1024: 2^1024 - 2^970.
MaxEdge ==
  Finite(1,
    <<1, 7, 9, 7, 6, 9, 3, 1, 3, 4, 8, 6, 2, 3, 1, 5, 8, 0, 7, 9, 3, 7, 2, 8,
      9, 7, 1, 4, 0, 5, 3, 0, 3, 4, 1, 5, 0, 7, 9, 9, 3, 4, 1, 3, 2, 7, 1, 0,
      0, 3, 7, 8, 2, 6, 9, 3, 6, 1, 7, 3, 7, 7, 8, 9, 8, 0, 4, 4, 4, 9, 6, 8,
      2, 9, 2, 7, 6, 4, 7, 5, 0, 9, 4, 6, 6, 4, 9, 0, 1, 7, 9, 7, 7, 5, 8, 7,
      2, 0, 7, 0, 9, 6, 3, 3, 0, 2, 8, 6, 4, 1, 6, 6, 9, 2, 8, 8, 7, 9, 1, 0,
      9, 4, 6, 5, 5, 5, 5, 4, 7, 8, 5, 1, 9, 4, 0, 4, 0, 2, 6, 3, 0, 6, 5, 7,
      4, 8, 8, 6, 7, 1, 5, 0, 5, 8, 2, 0, 6, 8, 1, 9, 0, 8, 9, 0, 2, 0, 0, 0,
      7, 0, 8, 3, 8, 3, 6, 7, 6, 2, 7, 3, 8, 5, 4, 8, 4, 5, 8, 1, 7, 7, 1, 1,
      5, 3, 1, 7, 6, 4, 4, 7, 5, 7, 3, 0, 2, 7, 0, 0, 6, 9, 8, 5, 5, 5, 7, 1,
      3, 6, 6, 9, 5, 9, 6, 2, 2, 8, 4, 2, 9, 1, 4, 8, 1, 9, 8, 6, 0, 8, 3, 4,
      9, 3, 6, 4, 7, 5, 2, 9, 2, 7, 1, 9, 0, 7, 4, 1, 6, 8, 4, 4, 4, 3, 6, 5,
      5, 1, 0, 7, 0, 4, 3, 4, 2, 7, 1, 1, 5, 5, 9, 6, 9, 9, 5, 0, 8, 0, 9, 3,
      0, 4, 2, 8, 8, 0, 1, 7, 7, 9, 0, 4, 1, 7, 4, 4, 9, 7, 7, 9, 2>>, 0)

\* Halfway between zero and the smallest double: 2^-1075 = 5^1075 / 10^1075.
MinEdge ==
  Finite(1,
    <<2, 4, 7, 0, 3, 2, 8, 2, 2, 9, 2, 0, 6, 2, 3, 2, 7, 2, 0, 8, 8, 2, 8, 4,
      3, 9, 6, 4, 3, 4, 1, 1, 0, 6, 8, 6, 1, 8, 2, 5, 2, 9, 9, 0, 1, 3, 0, 7,
      1, 6, 2, 3, 8, 2, 2, 1, 2, 7, 9, 2, 8, 4, 1, 2, 5, 0, 3, 3, 7, 7, 5, 3,
      6, 3, 5, 1, 0, 4, 3, 7, 5, 9, 3, 2, 6, 4, 9, 9, 1, 8, 1, 8, 0, 8, 1, 7,
      9, 9, 6, 1, 8, 9, 8, 9, 8, 2, 8, 2, 3, 4, 7, 7, 2, 2, 8, 5, 8, 8, 6, 5,
      4, 6, 3, 3, 2, 8, 3, 5, 5, 1, 7, 7, 9, 6, 9, 8, 9, 8, 1, 9, 9, 3, 8, 7,
      3, 9, 8, 0, 0, 5, 3, 9, 0, 9, 3, 9, 0, 6, 3, 1, 5, 0, 3, 5, 6, 5, 9, 5,
      1, 5, 5, 7, 0, 2, 2, 6, 3, 9, 2, 2, 9, 0, 8, 5, 8, 3, 9, 2, 4, 4, 9, 1,
      0, 5, 1, 8, 4, 4, 3, 5, 9, 3, 1, 8, 0, 2, 8, 4, 9, 9, 3, 6, 5, 3, 6, 1,
      5, 2, 5, 0, 0, 3, 1, 9, 3, 7, 0, 4, 5, 7, 6, 7, 8, 2, 4, 9, 2, 1, 9, 3,
      6, 5, 6, 2, 3, 6, 6, 9, 8, 6, 3, 6, 5, 8, 4, 8, 0, 7, 5, 7, 0, 0, 1, 5,
      8, 5, 7, 6, 9, 2, 6, 9, 9, 0, 3, 7, 0, 6, 3, 1, 1, 9, 2, 8, 2, 7, 9, 5,
      5, 8, 5, 5, 1, 3, 3, 2, 9, 2, 7, 8, 3, 4, 3, 3, 8, 4, 0, 9, 3, 5, 1, 9,
      7, 8, 0, 1, 5, 5, 3, 1, 2, 4, 6, 5, 9, 7, 2, 6, 3, 5, 7, 9, 5, 7, 4, 6,
      2, 2, 7, 6, 6, 4, 6, 5, 2, 7, 2, 8, 2, 7, 2, 2, 0, 0, 5, 6, 3, 7, 4, 0,
      0, 6, 4, 8, 5, 4, 9, 9, 9, 7, 7, 0, 9, 6, 5, 9, 9, 4, 7, 0, 4, 5, 4, 0,
      2, 0, 8, 2, 8, 1, 6, 6, 2, 2, 6, 2, 3, 7, 8, 5, 7, 3, 9, 3, 4, 5, 0, 7,
      3, 6, 3, 3, 9, 0, 0, 7, 9, 6, 7, 7, 6, 1, 9, 3, 0, 5, 7, 7, 5, 0, 6, 7,
      4, 0, 1, 7, 6, 3, 2, 4, 6, 7, 3, 6, 0, 0, 9, 6, 8, 9, 5, 1, 3, 4, 0, 5,
      3, 5, 5, 3, 7, 4, 5, 8, 5, 1, 6, 6, 6, 1, 1, 3, 4, 2, 2, 3, 7, 6, 6, 6,
      7, 8, 6, 0, 4, 1, 6, 2, 1, 5, 9, 6, 8, 0, 4, 6, 1, 9, 1, 4, 4, 6, 7, 2,
      9, 1, 8, 4, 0, 3, 0, 0, 5, 3, 0, 0, 5, 7, 5, 3, 0, 8, 4, 9, 0, 4, 8, 7,
      6, 5, 3, 9, 1, 7, 1, 1, 3, 8, 6, 5, 9, 1, 6, 4, 6, 2, 3, 9, 5, 2, 4, 9,
      1, 2, 6, 2, 3, 6, 5, 3, 8, 8, 1, 8, 7, 9, 6, 3, 6, 2, 3, 9, 3, 7, 3, 2,
      8, 0, 4, 2, 3, 8, 9, 1, 0, 1, 8, 6, 7, 2, 3, 4, 8, 4, 9, 7, 6, 6, 8, 2,
      3, 5, 0, 8, 9, 8, 6, 3, 3, 8, 8, 5, 8, 7, 9, 2, 5, 6, 2, 8, 3, 0, 2, 7,
      5, 5, 9, 9, 5, 6, 5, 7, 5, 2, 4, 4, 5, 5, 5, 0, 7, 2, 5, 5, 1, 8, 9, 3,
      1, 3, 6, 9, 0, 8, 3, 6, 2, 5, 4, 7, 7, 9, 1, 8, 6, 9, 4, 8, 6, 6, 7, 9,
      9, 4, 9, 6, 8, 3, 2, 4, 0, 4, 9, 7, 0, 5, 8, 2, 1, 0, 2, 8, 5, 1, 3, 1,
      8, 5, 4, 5, 1, 3, 9, 6, 2, 1, 3, 8, 3, 7, 7, 2, 2, 8, 2, 6, 1, 4, 5, 4,
      3, 7, 6, 9, 3, 4, 1, 2, 5, 3, 2, 0, 9, 8, 5, 9, 1, 3, 2, 7, 6, 6, 7, 2,
      3, 6, 3, 2, 8, 1, 2, 5>>, -1075)

\* The double nearest to m * 10^e: from MaxEdge on it is an infinity, up to
\* MinEdge it is zero (ties go to the even neighbour); in between it is
\* held as the decimal itself.
Rounded(sign, m, e) ==
  IF m = <<>> THEN Finite(sign, <<>>, 0)
  ELSE IF ~Below(Finite(sign, m, e), MaxEdge) THEN Infinite(sign)
  ELSE IF ~Below(MinEdge, Finite(sign, m, e)) THEN Finite(sign, <<>>, 0)
  ELSE Finite(sign, m, e)

\* float(x): None raises TypeError.  A string is stripped, its underscores
\* between digits dropped, and must then read  [sign] inf | infinity | nan
\* (in any case) or  [sign] digits [. [digits]] | [sign] . digits,  each
\* with an optional exponent  e [sign] digits.
ParseFloat(raw) ==
  IF raw = MISSING THEN NotAFloat
  ELSE LET t == Strip(raw)
           u == Unsigned(Ungrouped(t))
           x == ExpAt(u)
           mant == IF x = 0 THEN u ELSE SubSeq(u, 1, x - 1)
           expo == IF x = 0 THEN <<>> ELSE SubSeq(u, x + 1, Len(u))
           d == DotAt(mant)
           ip == IF d = 0 THEN mant ELSE SubSeq(mant, 1, d - 1)
           fp == IF d = 0 THEN <<>> ELSE SubSeq(mant, d + 1, Len(mant))
           ex == Unsigned(expo)
       IN IF ~UnderscoresOk(t) THEN NotAFloat
          ELSE IF Lower(u) \in {<<105, 110, 102>>,
                                <<105, 110, 102, 105, 110, 105, 116, 121>>}
          THEN Infinite(Sign(Ungrouped(t)))
          ELSE IF Lower(u) = <<110, 97, 110>> THEN NaN
          ELSE IF /\ AllDigits(ip) /\ AllDigits(fp) /\ Len(ip) + Len(fp) > 0
                  /\ x # 0 => (Len(ex) > 0 /\ AllDigits(ex))
          THEN Rounded(Sign(t), NoLeadingZeros(DigitVals(ip \o fp)),
                       Sign(expo) * ExpValue(ex) - Len(fp))
          ELSE NotAFloat

\* A whole number: its sign and its digits.
NotAnInt == [ok |-> FALSE, sign |-> 1, m |-> <<>>]

Integer(sign, m) == [ok |-> TRUE, sign |-> IF m = <<>> THEN 1 ELSE sign, m |-> m]

\* int(f) of a float: a finite one is cut to its whole part.
Truncated(f) ==
  IF f.ok /\ f.kind = "finite"
  THEN Integer(f.sign,
               IF f.e >= 0 THEN f.m \o [i \in 1..(IF f.m = <<>> THEN 0 ELSE f.e) |-> 0]
               ELSE SubSeq(f.m, 1, Len(f.m) + f.e))
  ELSE NotAnInt

\* ParseInt as int(float(x)) would be: a decimal string is cut to its whole part.
ParseIntTruncating(raw) == Truncated(ParseFloat(raw))

\* int(x): None raises TypeError.  A string is stripped, its underscores
\* between digits dropped, and must then read  [sign] digits,  with no more
\* than MaxStrDigits digits.
ParseInt(raw) ==
  IF raw = MISSING THEN NotAnInt
  ELSE LET t == Strip(raw)
           u == Unsigned(Ungrouped(t))
       IN IF UnderscoresOk(t) /\ Len(u) > 0 /\ AllDigits(u) /\ Len(u) <= MaxStrDigits
          THEN Integer(Sign(t), NoLeadingZeros(DigitVals(u)))
          ELSE NotAnInt

\* request.args.get(key, default)
ArgsGet(raw, default) == IF raw = MISSING THEN default ELSE raw

(***************************************************************************)
(* The dataset: table providers.  A stored coordinate is NULL, the empty   *)
(* text '' or a number (here: whole degrees); the taxonomy column is a JSON *)
(* array, held as the sequence of its codes.                               *)
(***************************************************************************)
NULL == [t |-> "null", v |-> 0]
EMPTY == [t |-> "text", v |-> 0]
Real(n) == [t |-> "real", v |-> n]

\* Category codes are strings: "A" and "B".
CodeA == <<65>>
CodeB == <<66>>

\* The rows a dataset is drawn from, by NPI.
Catalogue ==
  [n \in 1..6 |->
     CASE n = 1 -> [latitude |-> Real(0),  longitude |-> Real(0),  taxonomy |-> <<CodeA, CodeA>>]
       [] n = 2 -> [latitude |-> Real(0),  longitude |-> Real(1),  taxonomy |-> <<CodeB>>]
       [] n = 3 -> [latitude |-> NULL,     longitude |-> Real(0),  taxonomy |-> <<CodeA>>]
       [] n = 4 -> [latitude |-> Real(0),  longitude |-> NULL,     taxonomy |-> <<CodeA>>]
       [] n = 5 -> [latitude |-> EMPTY,    longitude |-> EMPTY,    taxonomy |-> <<CodeA, CodeB>>]
       [] n = 6 -> [latitude |-> Real(1),  longitude |-> Real(0),  taxonomy |-> <<>>]]

\* A dataset is the NPIs of its rows in the order the table stores them,
\* which a scan of the table follows; no NPI is stored twice.
Datasets ==
  {d \in UNION {[1..n -> DOMAIN Catalogue] : n \in 0..MaxProviders} :
     \A i, j \in 1..Len(d) : d[i] = d[j] => i = j}

\* The parameter strings a request is drawn from.  The plain ones:
PlainLat == {<<48>>, <<49>>}                                 \* "0", "1"
PlainLon == {<<48>>, <<49>>}                                 \* "0", "1"
\* "0", "69.1", "69.09"
PlainRadius == {MISSING, <<48>>, <<54, 57, 46, 49>>, <<54, 57, 46, 48, 57>>}
PlainOffset == {MISSING, <<49>>}                             \* "1"
TaxonomyArgs == {MISSING, <<>>, CodeA}

\* and the odd ones: " 1", "1e0", U+0661, "1.0000000000000001", "nan",
\* "inf", "a"
OddLat == {MISSING, <<32, 49>>, <<49, 101, 48>>, <<1633>>,
           <<49, 46, 48, 48, 48, 48, 48, 48, 48, 48, 48, 48, 48, 48, 48, 48, 48, 49>>,
           <<110, 97, 110>>, <<105, 110, 102>>, <<97>>}
\* "0_1", "1 ", U+FF10, "NaN", "1__0"
OddLon == {MISSING, <<48, 95, 49>>, <<49, 32>>, <<65296>>, <<78, 97, 78>>,
           <<49, 95, 95, 48>>}
\* "6_9.0_9", "69.09409442794463", "69.0940944279446328", "nan", "inf",
\* "-1", "1e-400", "a"
OddRadius == {<<54, 95, 57, 46, 48, 95, 57>>,
              <<54, 57, 46, 48, 57, 52, 48, 57, 52, 52, 50, 55, 57, 52, 52, 54, 51>>,
              <<54, 57, 46, 48, 57, 52, 48, 57, 52, 52, 50, 55, 57, 52, 52, 54, 51, 50, 56>>,
              <<110, 97, 110>>, <<105, 110, 102>>, <<45, 49>>,
              <<49, 101, 45, 52, 48, 48>>, <<97>>}
\* " 1", "1_0", U+FF11, "-1", "9223372036854775808", "1.5", "1e1", "_1"
OddOffset == {<<32, 49>>, <<49, 95, 48>>, <<65297>>, <<45, 49>>,
              <<57, 50, 50, 51, 51, 55, 50, 48, 51, 54, 56, 53, 52, 55, 55, 53, 56, 48, 56>>,
              <<49, 46, 53>>, <<49, 101, 49>>, <<95, 49>>}

\* A request is written plainly, or has one odd parameter beside lat=0,
\* lon=0 and the defaults.
Requests ==
  [lat : PlainLat, lon : PlainLon, radius : PlainRadius,
   taxonomy : TaxonomyArgs, offset : PlainOffset]
  \cup [lat : OddLat, lon : {<<48>>}, radius : {MISSING},
        taxonomy : TaxonomyArgs, offset : {MISSING}]
  \cup [lat : {<<48>>}, lon : OddLon, radius : {MISSING},
        taxonomy : TaxonomyArgs, offset : {MISSING}]
  \cup [lat : {<<48>>}, lon : {<<48>>}, radius : OddRadius,
        taxonomy : TaxonomyArgs, offset : {MISSING}]
  \cup [lat : {<<48>>}, lon : {<<48>>}, radius : {MISSING},
        taxonomy : TaxonomyArgs, offset : OddOffset]

NoRequest == [lat |-> MISSING, lon |-> MISSING, radius |-> MISSING,
              taxonomy |-> MISSING, offset |-> MISSING]

(***************************************************************************)
(* Section 1 of search_providers: the query parameters.  Any TypeError or  *)
(* ValueError of the four conversions is the 400 answer.                   *)
(***************************************************************************)
ParseLat(a) == ParseFloat(a.lat)

ParseLon(a) == ParseFloat(a.lon)

ParseRadius(a) ==
  IF a.radius = MISSING THEN Finite(1, Digits(DefaultRadius), 0)
  ELSE ParseFloat(a.radius)

ParseTaxonomy(a) == ArgsGet(a.taxonomy, <<>>)

ParseOffset(a) ==
  IF a.offset = MISSING THEN Integer(1, Digits(DefaultOffset))
  ELSE ParseInt(a.offset)

ParamsOk(a) ==
  ParseLat(a).ok /\ ParseLon(a).ok /\ ParseRadius(a).ok /\ ParseOffset(a).ok

\* `if taxonomy:` -- a non-empty string is true.
Truthy(taxonomy) == Len(taxonomy) > 0

(***************************************************************************)
(* Section 2 and 3: the two SQL texts, as the sequence of their clauses in *)
(* the order the string concatenation puts them.  The WHERE clause names   *)
(* t_join.value when the taxonomy is non-empty.                            *)
(***************************************************************************)
base_query(taxonomy) ==
  <<"SELECT", "FROM">> \o (IF Truthy(taxonomy) THEN <<>> ELSE <<"GROUP BY">>)

taxonomy_join(taxonomy) == IF Truthy(taxonomy) THEN <<"JOIN">> ELSE <<>>

count_query(taxonomy) ==
  <<"SELECT", "FROM">> \o taxonomy_join(taxonomy) \o <<"WHERE">>
    \o (IF Truthy(taxonomy) THEN <<>> ELSE <<"GROUP BY">>) \o <<"HAVING">>

results_query(taxonomy) ==
  base_query(taxonomy) \o taxonomy_join(taxonomy)
    \o <<"WHERE", "HAVING", "ORDER BY", "LIMIT", "OFFSET">>

(***************************************************************************)
(* What conn.execute does with a text: SQLite compiles it first.  The      *)
(* clauses of a SELECT come in one order only and OFFSET follows LIMIT; a  *)
(* HAVING clause needs an aggregate query (here: a GROUP BY); t_join is    *)
(* known only with the JOIN.  A text that fails to compile raises          *)
(* sqlite3.OperationalError before any row is read.                        *)
(***************************************************************************)
ClauseRank(c) ==
  CASE c = "SELECT" -> 1 [] c = "FROM" -> 2 [] c = "JOIN" -> 3 [] c = "WHERE" -> 4
    [] c = "GROUP BY" -> 5 [] c = "HAVING" -> 6 [] c = "ORDER BY" -> 7
    [] c = "LIMIT" -> 8 [] c = "OFFSET" -> 9

Has(q, c) == \E i \in 1..Len(q) : q[i] = c

\* The clause at position i + 1 cannot follow the clause at position i.
Misplaced(q, i) ==
  \/ ClauseRank(q[i]) >= ClauseRank(q[i + 1])
  \/ q[i + 1] = "OFFSET" /\ q[i] # "LIMIT"

\* The message names the first word of the first misplaced clause.
SyntaxError(c) ==
  CASE c = "SELECT" -> "near \"SELECT\": syntax error"
    [] c = "FROM" -> "near \"FROM\": syntax error"
    [] c = "JOIN" -> "near \"LEFT\": syntax error"
    [] c = "WHERE" -> "near \"WHERE\": syntax error"
    [] c = "GROUP BY" -> "near \"GROUP\": syntax error"
    [] c = "HAVING" -> "near \"HAVING\": syntax error"
    [] c = "ORDER BY" -> "near \"ORDER\": syntax error"
    [] c = "LIMIT" -> "near \"LIMIT\": syntax error"
    [] c = "OFFSET" -> "near \"OFFSET\": syntax error"

Prepare(q, taxonomy) ==
  IF \E i \in 1..(Len(q) - 1) : Misplaced(q, i)
  THEN LET i == CHOOSE k \in 1..(Len(q) - 1) :
                  Misplaced(q, k) /\ \A j \in 1..(k - 1) : ~Misplaced(q, j)
       IN SyntaxError(q[i + 1])
  ELSE IF Has(q, "HAVING") /\ ~Has(q, "GROUP BY")
  THEN "HAVING clause on a non-aggregate query"
  ELSE IF Has(q, "WHERE") /\ Truthy(taxonomy) /\ ~Has(q, "JOIN")
  THEN "no such column: t_join.value"
  ELSE "ok"

\* The largest and the smallest whole number SQLite holds: 2^63 - 1, -2^63.
MaxInt64 == <<9, 2, 2, 3, 3, 7, 2, 0, 3, 6, 8, 5, 4, 7, 7, 5, 8, 0, 7>>

MinInt64 == <<9, 2, 2, 3, 3, 7, 2, 0, 3, 6, 8, 5, 4, 7, 7, 5, 8, 0, 8>>

\* Binding :offset to a compiled text that names it: a whole number out of
\* SQLite's range raises OverflowError.
BindsOffset(offset) ==
  LET edge == Finite(1, IF offset.sign = 1 THEN MaxInt64 ELSE MinInt64, 0)
  IN ~Below(edge, Finite(1, offset.m, 0))

(***************************************************************************)
(* The rows of a compiled query.                                           *)
(***************************************************************************)
\* The SQL NULL of a json_each value: equal to no string.
NullValue == <<-1>>

RECURSIVE SortedSeq(_)
SortedSeq(S) ==
  IF S = {} THEN <<>>
  ELSE LET m == CHOOSE x \in S : \A y \in S : x <= y
       IN <<m>> \o SortedSeq(S \ {m})

\* LEFT JOIN json_each(p.taxonomy) AS t_join ON 1=1: one row per element of
\* the array, and one row with a NULL value for an empty array.
JoinRows(npi) ==
  LET tx == Catalogue[npi].taxonomy
  IN IF Len(tx) = 0 THEN <<[npi |-> npi, value |-> NullValue]>>
     ELSE [i \in 1..Len(tx) |-> [npi |-> npi, value |-> tx[i]]]

\* FROM providers p [LEFT JOIN ...]: the rows of the table as it stores them.
RECURSIVE FromRows(_, _)
FromRows(npis, joined) ==
  IF npis = <<>> THEN <<>>
  ELSE (IF joined THEN JoinRows(Head(npis))
        ELSE <<[npi |-> Head(npis), value |-> NullValue]>>)
       \o FromRows(Tail(npis), joined)

\* p.latitude IS NOT NULL AND p.latitude != '' [AND t_join.value = :taxonomy]
where_clauses(row, taxonomy) ==
  /\ Catalogue[row.npi].latitude # NULL
  /\ Catalogue[row.npi].latitude # EMPTY
  /\ Truthy(taxonomy) => row.value = taxonomy

\* GROUP BY p.NPI: the rows sorted by NPI, one row per NPI; the columns of
\* the query are computed for the groups, in that order.
GroupBy(rows) ==
  LET npis == SortedSeq({rows[i].npi : i \in 1..Len(rows)})
  IN [k \in 1..Len(npis) |->
        rows[CHOOSE i \in 1..Len(rows) :
               rows[i].npi = npis[k] /\ \A j \in 1..(i - 1) : rows[j].npi # npis[k]]]

\* Halfway between the double below 1 and 1: 1 - 2^-54.
OneLow ==
  Finite(1,
    <<9, 9, 9, 9, 9, 9, 9, 9, 9, 9, 9, 9, 9, 9, 9, 9, 4, 4, 4, 8, 8, 8, 4, 8,
      7, 6, 8, 7, 4, 2, 1, 7, 2, 9, 7, 8, 8, 1, 8, 4, 1, 6, 5, 9, 5, 4, 5, 8,
      9, 8, 4, 3, 7, 5>>, -54)

\* Halfway between 1 and the double above 1: 1 + 2^-53.
OneHigh ==
  Finite(1,
    <<1, 0, 0, 0, 0, 0, 0, 0, 0, 0, 0, 0, 0, 0, 0, 0, 1, 1, 1, 0, 2, 2, 3, 0,
      2, 4, 6, 2, 5, 1, 5, 6, 5, 4, 0, 4, 2, 3, 6, 3, 1, 6, 6, 8, 0, 9, 0, 8,
      2, 0, 3, 1, 2, 5>>, -53)

\* The double a coordinate of the request is read as, for the doubles 0 and
\* 1 (a zero of either sign counts as 0).
Degree(f) ==
  CASE f.m = <<>> -> 0
    [] f.m # <<>> /\ f.sign = 1 /\ ~Below(f, OneLow) /\ ~Below(OneHigh, f) -> 1

\* The doubles the haversine formula of the code yields for whole degrees 0
\* and 1, each followed by the point halfway to the next double above it.
NoDistance == Finite(1, <<>>, 0)

\* 69.09409442794463
OneDegree ==
  Finite(1,
    <<6, 9, 0, 9, 4, 0, 9, 4, 4, 2, 7, 9, 4, 4, 6, 2, 5, 6, 3, 5, 9, 7, 3, 3,
      5, 2, 4, 7, 3, 2, 2, 9, 1, 6, 9, 8, 4, 5, 5, 8, 1, 0, 5, 4, 6, 8, 7, 5>>, -46)

\* halfway from 69.09409442794463 to the next double, 69.09409442794464
OneDegreeUp ==
  Finite(1,
    <<6, 9, 0, 9, 4, 0, 9, 4, 4, 2, 7, 9, 4, 4, 6, 3, 2, 7, 4, 1, 4, 0, 0, 7,
      1, 0, 0, 7, 4, 2, 3, 1, 0, 2, 8, 5, 5, 6, 8, 2, 3, 7, 3, 0, 4, 6, 8, 7,
      5>>, -47)

\* 69.08357079558161
OneDegreeAtLat1 ==
  Finite(1,
    <<6, 9, 0, 8, 3, 5, 7, 0, 7, 9, 5, 5, 8, 1, 6, 0, 7, 6, 2, 6, 4, 4, 5, 4,
      7, 5, 0, 3, 4, 4, 1, 5, 7, 2, 1, 8, 9, 3, 3, 1, 0, 5, 4, 6, 8, 7, 5>>, -45)

\* halfway from 69.08357079558161 to the next double, 69.08357079558162
OneDegreeAtLat1Up ==
  Finite(1,
    <<6, 9, 0, 8, 3, 5, 7, 0, 7, 9, 5, 5, 8, 1, 6, 1, 4, 7, 3, 1, 8, 7, 2, 8,
      3, 2, 6, 3, 5, 4, 1, 7, 5, 8, 0, 6, 0, 4, 5, 5, 3, 2, 2, 2, 6, 5, 6, 2,
      5>>, -47)

\* 97.7113248437135
Diagonal ==
  Finite(1,
    <<9, 7, 7, 1, 1, 3, 2, 4, 8, 4, 3, 7, 1, 3, 4, 9, 8, 4, 6, 6, 9, 6, 8, 3,
      0, 3, 5, 4, 6, 3, 0, 9, 4, 7, 1, 1, 3, 0, 3, 7, 1, 0, 9, 3, 7, 5>>, -44)

\* halfway from 97.7113248437135 to the next double, 97.71132484371351
DiagonalUp ==
  Finite(1,
    <<9, 7, 7, 1, 1, 3, 2, 4, 8, 4, 3, 7, 1, 3, 5, 0, 5, 5, 7, 2, 3, 9, 5, 6,
      6, 1, 1, 4, 7, 3, 1, 1, 3, 2, 9, 8, 4, 1, 6, 1, 3, 7, 6, 9, 5, 3, 1, 2,
      5>>, -47)

\* 3958.8 * acos(cos(radians(:user_lat)) * cos(radians(p.latitude))
\*   * cos(radians(p.longitude) - radians(:user_lon))
\*   + sin(radians(:user_lat)) * sin(radians(p.latitude))),
\* tabulated from the code's own arithmetic for latitudes and longitudes
\* 0 and 1; a and b are the two latitudes, d the longitudes' difference.
Miles(a, b, d) ==
  CASE a = 0 /\ b = 0 /\ d = 0 -> NoDistance
    [] a = 0 /\ b = 0 /\ d = 1 -> OneDegree
    [] a = 0 /\ b = 1 /\ d = 0 -> OneDegree
    [] a = 1 /\ b = 0 /\ d = 0 -> OneDegree
    [] a = 0 /\ b = 1 /\ d = 1 -> Diagonal
    [] a = 1 /\ b = 0 /\ d = 1 -> Diagonal
    [] a = 1 /\ b = 1 /\ d = 0 -> NoDistance
    [] a = 1 /\ b = 1 /\ d = 1 -> OneDegreeAtLat1

haversine_formula(user_lat, user_lon, latitude, longitude) ==
  Miles(Degree(user_lat), latitude,
        Max(longitude, Degree(user_lon)) - Min(longitude, Degree(user_lon)))

\* The point halfway from a distance to the next double above it, and
\* whether a radius written exactly there is read as that next double (the
\* tie goes to the double whose last bit is 0).
HalfwayUp(distance) ==
  CASE distance = OneDegree -> OneDegreeUp
    [] distance = OneDegreeAtLat1 -> OneDegreeAtLat1Up
    [] distance = Diagonal -> DiagonalUp

TieGoesUp(distance) == distance = OneDegree

\* HAVING distance < :radius, on doubles.  A nan radius is bound as NULL and
\* no row passes.  A finite radius is read as a double above the distance
\* when it is written above the point halfway to the next double, or on it
\* and the tie goes up; every double above zero is above the distance 0.
having_clauses(row, radius) ==
  CASE radius.kind = "nan" -> FALSE
    [] radius.kind = "inf" -> radius.sign = 1
    [] radius.kind = "finite" ->
         /\ radius.sign = 1
         /\ radius.m # <<>>
         /\ \/ row.distance = NoDistance
            \/ /\ row.distance # NoDistance
               /\ \/ Below(HalfwayUp(row.distance), radius)
                  \/ /\ ~Below(radius, HalfwayUp(row.distance))
                     /\ TieGoesUp(row.distance)

\* ORDER BY distance: rows of equal distance keep the order they had.
RECURSIVE OrderBy(_)
OrderBy(rows) ==
  IF rows = <<>> THEN <<>>
  ELSE LET i == CHOOSE k \in 1..Len(rows) :
                  /\ \A j \in 1..Len(rows) : ~Below(rows[j].distance, rows[k].distance)
                  /\ \A j \in 1..(k - 1) : Below(rows[k].distance, rows[j].distance)
       IN <<rows[i]>> \o OrderBy(SubSeq(rows, 1, i - 1) \o SubSeq(rows, i + 1, Len(rows)))

\* radians() is math.radians and cos() is math.cos: a NULL or '' argument
\* raises (a nan parameter is bound as NULL), and so does an infinite one.
Raises(npi, user_lat, user_lon) ==
  \/ Catalogue[npi].latitude.t # "real" \/ Catalogue[npi].longitude.t # "real"
  \/ user_lat.kind # "finite" \/ user_lon.kind # "finite"

\* The row of the result for a row of the table: p.NPI and the distance.
Measured(npi, user_lat, user_lon) ==
  [npi |-> npi,
   distance |-> haversine_formula(user_lat, user_lon,
                                  Catalogue[npi].latitude.v, Catalogue[npi].longitude.v)]

\* The rows are taken one by one.  Without HAVING the first `skip` rows are
\* passed over unmeasured; every other row has its distance computed (the
\* query fails where that raises) and, with HAVING, is dropped unless it
\* passes; the first `skip` rows that pass are left out and the next `take`
\* are the result, after which no further row is read.
\* A scanned row put before the outcome of scanning the rows after it.
Scanned(row, keep, rest) ==
  [failed |-> rest.failed,
   rows |-> IF rest.failed THEN <<>>
            ELSE (IF keep THEN <<row>> ELSE <<>>) \o rest.rows,
   computed |-> {row.npi} \cup rest.computed]

RECURSIVE Scan(_, _, _, _, _)
Scan(rows, skip, take, filtered, P) ==
  IF rows = <<>> \/ take = 0 THEN [failed |-> FALSE, rows |-> <<>>, computed |-> {}]
  ELSE IF ~filtered /\ skip > 0 THEN Scan(Tail(rows), skip - 1, take, filtered, P)
  ELSE IF Raises(Head(rows).npi, P.user_lat, P.user_lon)
  THEN [failed |-> TRUE, rows |-> <<>>, computed |-> {Head(rows).npi}]
  ELSE LET row == Measured(Head(rows).npi, P.user_lat, P.user_lon) IN
    IF filtered /\ ~having_clauses(row, P.radius)
    THEN Scanned(row, FALSE, Scan(Tail(rows), skip, take, filtered, P))
    ELSE IF skip > 0
    THEN Scanned(row, FALSE, Scan(Tail(rows), skip - 1, take, filtered, P))
    ELSE Scanned(row, TRUE, Scan(Tail(rows), 0, take - 1, filtered, P))

\* OFFSET :offset over n rows: a negative offset counts as 0, one beyond the
\* rows leaves none.  LIMIT :limit.
Skip(q, P, n) ==
  IF ~Has(q, "OFFSET") \/ P.offset.sign < 0 THEN 0
  ELSE IF Len(P.offset.m) > 9 THEN n
  ELSE Min(DigitsValue(P.offset.m), n)

Take(q, P, n) == IF Has(q, "LIMIT") THEN P.limit ELSE n + 1

\* FROM, JOIN, WHERE and GROUP BY over the table ds: the rows the distance
\* is computed for.  WHERE applies where the text has one.
Rows(q, ds, taxonomy) ==
  LET from == FromRows(ds, Has(q, "JOIN"))
      kept == IF Has(q, "WHERE")
              THEN SelectSeq(from, LAMBDA r : where_clauses(r, taxonomy))
              ELSE from
  IN IF Has(q, "GROUP BY") THEN GroupBy(kept) ELSE kept

\* What the fetch gives for the scan of the rows and the page cut from it.
Fetched(scan, page) ==
  IF scan.failed
  THEN [raised |-> "sqlite3.Error",
        error |-> "user-defined function raised exception",
        rows |-> <<>>, computed |-> scan.computed]
  ELSE [raised |-> "", error |-> "ok", rows |-> page, computed |-> scan.computed]

\* ORDER BY needs the distance of every row before the cut, and the cut is
\* made on the sorted rows; without it the scan itself skips and stops.
Sorted(scan, skip, take) ==
  Fetched(scan, SubSeq(OrderBy(scan.rows), skip + 1,
                       Min(skip + take, Len(scan.rows))))

Select(q, rows, skip, take, P) ==
  IF Has(q, "ORDER BY")
  THEN Sorted(Scan(rows, 0, Len(rows) + 1, Has(q, "HAVING"), P), skip, take)
  ELSE Fetched(Scan(rows, skip, take, Has(q, "HAVING"), P),
               Scan(rows, skip, take, Has(q, "HAVING"), P).rows)

\* conn.execute(q, query_params) followed by the fetch, over the table ds:
\* the text is compiled and the parameters it names are bound; the rows of
\* the table are scanned and filtered by WHERE, grouped, and then measured
\* and cut.
Execute(q, ds, P) ==
  IF Prepare(q, P.taxonomy) # "ok"
  THEN [raised |-> "sqlite3.Error", error |-> Prepare(q, P.taxonomy),
        rows |-> <<>>, computed |-> {}]
  ELSE IF Has(q, "OFFSET") /\ ~BindsOffset(P.offset)
  THEN [raised |-> "Exception",
        error |-> "Python int too large to convert to SQLite INTEGER",
        rows |-> <<>>, computed |-> {}]
  ELSE Select(q, Rows(q, ds, P.taxonomy),
              Skip(q, P, Len(Rows(q, ds, P.taxonomy))),
              Take(q, P, Len(Rows(q, ds, P.taxonomy))), P)

(***************************************************************************)
(* The state.                                                              *)
(***************************************************************************)
VARIABLES
  dataset,        \* the NPIs of the rows of table providers, as stored (never written)
  args,           \* request.args of the request in hand (or of the last one)
  pc,             \* where search_providers stands
  params,         \* query_params: user_lat, user_lon, radius, taxonomy, limit, offset
  conn,           \* the handler's conn: a connection id, or 0
  total_results,  \* the handler's total_results
  pending,        \* the value of the return statement waiting for `finally`
  response,       \* what the last finished request answered
  open,           \* the connections opened and not closed
  nextId,         \* the number of connections opened so far
  opened,         \* the connections the request in hand opened
  executed,       \* the queries the request in hand handed to conn.execute
  computed,       \* the NPIs whose distance expression the request evaluated
  nreq            \* the requests received so far

vars == <<dataset, args, pc, params, conn, total_results, pending, response,
          open, nextId, opened, executed, computed, nreq>>

NoParams == [user_lat |-> Finite(1, <<>>, 0), user_lon |-> Finite(1, <<>>, 0),
             radius |-> Finite(1, <<>>, 0), taxonomy |-> <<>>,
             limit |-> RESULTS_PER_PAGE, offset |-> Integer(1, <<>>)]

\* A response: the status and the fields of the JSON body.  A body without
\* "results" and "total" has results <<>> and total -1 here.
NoResponse == [status |-> 0, error |-> "", details |-> "", results |-> <<>>,
               total |-> -1, offset |-> Integer(1, <<>>), limit |-> 0]

ErrorResponse(status, message, details) ==
  [status |-> status, error |-> message, details |-> details, results |-> <<>>,
   total |-> -1, offset |-> Integer(1, <<>>), limit |-> 0]

\* except sqlite3.Error / except Exception around the two queries.
QueryError(r) ==
  ErrorResponse(500,
                IF r.raised = "sqlite3.Error" THEN "A database error occurred."
                ELSE "An unexpected server error occurred.",
                r.error)

Init ==
  /\ dataset \in Datasets
  /\ args = NoRequest
  /\ pc = "idle"
  /\ params = NoParams
  /\ conn = 0
  /\ total_results = 0
  /\ pending = NoResponse
  /\ response = NoResponse
  /\ open = {}
  /\ nextId = 0
  /\ opened = 0
  /\ executed = 0
  /\ computed = {}
  /\ nreq = 0

\* A request arrives at /api/search.
Receive ==
  /\ pc = "idle"
  /\ nreq < MaxRequests
  /\ \E a \in Requests : args' = a
  /\ pc' = "parse"
  /\ nreq' = nreq + 1
  /\ response' = NoResponse
  /\ opened' = 0
  /\ executed' = 0
  /\ computed' = {}
  /\ UNCHANGED <<dataset, params, conn, total_results, pending, open, nextId>>

\* Return from search_providers: the locals are gone.
Return(r) ==
  /\ response' = r
  /\ pc' = "idle"
  /\ params' = NoParams
  /\ conn' = 0
  /\ total_results' = 0
  /\ pending' = NoResponse

\* Section 1: the try block around the conversions.
ParseParams ==
  /\ pc = "parse"
  /\ IF ParamsOk(args)
     THEN /\ params' = [user_lat |-> ParseLat(args),
                        user_lon |-> ParseLon(args),
                        radius |-> ParseRadius(args),
                        taxonomy |-> ParseTaxonomy(args),
                        limit |-> RESULTS_PER_PAGE,
                        offset |-> ParseOffset(args)]
          /\ pc' = "connect"
          /\ UNCHANGED <<conn, total_results, pending, response>>
     ELSE Return(ErrorResponse(400,
            "Invalid query parameters. 'lat', 'lon', and 'radius' must be numbers.",
            ""))
  /\ UNCHANGED <<dataset, args, open, nextId, opened, executed, computed, nreq>>

\* conn = get_db_conn(), before the try block.  sqlite3.connect or one of the
\* create_function calls may raise; nothing in search_providers catches it.
GetDbConn ==
  /\ pc = "connect"
  /\ \E outcome \in {"ok", "connect failed", "create_function failed"} :
       CASE outcome = "ok" ->
              /\ conn' = nextId + 1
              /\ open' = open \cup {nextId + 1}
              /\ nextId' = nextId + 1
              /\ opened' = opened + 1
              /\ pc' = "count"
              /\ UNCHANGED <<params, total_results, pending, response>>
         [] outcome = "connect failed" ->
              /\ Return(ErrorResponse(500, "Internal Server Error", ""))
              /\ UNCHANGED <<open, nextId, opened>>
         [] outcome = "create_function failed" ->
              /\ open' = open \cup {nextId + 1}
              /\ nextId' = nextId + 1
              /\ opened' = opened + 1
              /\ Return(ErrorResponse(500, "Internal Server Error", ""))
  /\ UNCHANGED <<dataset, args, executed, computed, nreq>>

\* count_cursor = conn.execute(count_query, query_params); fetchone()[0]
ExecCount ==
  /\ pc = "count"
  /\ \E r \in {Execute(count_query(params.taxonomy), dataset, params)} :
       /\ executed' = executed + 1
       /\ computed' = computed \cup r.computed
       /\ IF r.error = "ok"
          THEN /\ total_results' = Len(r.rows)
               /\ pc' = "results"
               /\ UNCHANGED pending
          ELSE /\ pending' = QueryError(r)
               /\ pc' = "finally"
               /\ UNCHANGED total_results
  /\ UNCHANGED <<dataset, args, params, conn, response, open, nextId, opened, nreq>>

\* results_cursor = conn.execute(results_query, query_params); fetchall();
\* return jsonify(...)
ExecResults ==
  /\ pc = "results"
  /\ \E r \in {Execute(results_query(params.taxonomy), dataset, params)} :
       /\ executed' = executed + 1
       /\ computed' = computed \cup r.computed
       /\ IF r.error = "ok"
          THEN pending' = [status |-> 200, error |-> "", details |-> "", results |-> r.rows,
                           total |-> total_results,
                           offset |-> params.offset, limit |-> RESULTS_PER_PAGE]
          ELSE pending' = QueryError(r)
       /\ pc' = "finally"
  /\ UNCHANGED <<dataset, args, params, conn, total_results, response, open,
                 nextId, opened, nreq>>

\* finally: if conn: conn.close()
Finally ==
  /\ pc = "finally"
  /\ open' = IF conn # 0 THEN open \ {conn} ELSE open
  /\ Return(pending)
  /\ UNCHANGED <<dataset, args, nextId, opened, executed, computed, nreq>>

Next == Receive \/ ParseParams \/ GetDbConn \/ ExecCount \/ ExecResults \/ Finally

Spec == Init /\ [][Next]_vars

TypeOK ==
  /\ dataset \in Datasets
  /\ pc \in {"idle", "parse", "connect", "count", "results", "finally"}
  /\ nreq \in 0..MaxRequests
  /\ response.status \in {0, 200, 400, 500}

(***************************************************************************)
(* What the specification expects of a request, stated on the dataset and  *)
(* the request alone.                                                      *)
(***************************************************************************)
Done == pc = "idle" /\ nreq > 0

\* The dataset was reached: the connection was made and a query was run.
Queried == Done /\ executed > 0

\* The NPIs of the table.
Stored == {dataset[i] : i \in 1..Len(dataset)}

Located(n) == Catalogue[n].latitude.t = "real" /\ Catalogue[n].longitude.t = "real"

HasCode(n, code) == \E i \in 1..Len(Catalogue[n].taxonomy) : Catalogue[n].taxonomy[i] = code

InFilter(n, code) == code = <<>> \/ HasCode(n, code)

Filter(a) == IF a.taxonomy = MISSING THEN <<>> ELSE a.taxonomy

\* The parameters were read as finite numbers.
FiniteParams(a) ==
  /\ ParseLat(a).kind = "finite"
  /\ ParseLon(a).kind = "finite"
  /\ ParseRadius(a).kind = "finite"

Matching(ds, a) ==
  {n \in ds : /\ Located(n)
              /\ InFilter(n, Filter(a))
              /\ having_clauses(Measured(n, ParseLat(a), ParseLon(a)), ParseRadius(a))}

Returned == {response.results[i].npi : i \in 1..Len(response.results)}

NoRepeat(rows) == \A i, j \in 1..Len(rows) : rows[i].npi = rows[j].npi => i = j

\* The offset of a request as a number (the offsets of Requests are short).
OffsetOf(a) ==
  IF Len(ParseOffset(a).m) > 9 THEN 1000000000
  ELSE ParseOffset(a).sign * DigitsValue(ParseOffset(a).m)

\* The strings of the request sets that Python reads as no number (None,
\* "a", "1__0") and as no integer ("1.5", "1e1", "_1").
NotNumbers == {MISSING, <<97>>, <<49, 95, 95, 48>>}

NotIntegers == {<<49, 46, 53>>, <<49, 101, 49>>, <<95, 49>>}

Malformed(a) ==
  \/ a.lat \in NotNumbers
  \/ a.lon \in NotNumbers
  \/ a.radius # MISSING /\ a.radius \in NotNumbers
  \/ a.offset # MISSING /\ a.offset \in NotIntegers

(***************************************************************************)
(* The claims.                                                             *)
(***************************************************************************)

\* C1: a request with an empty taxonomy filter and parseable lat, lon, radius
\* and offset is answered 200, and the matching providers are exactly the
\* located providers nearer than the radius, each once: the total counts
\* them and the page lists only them, none twice.
C1_EmptyFilterAnswered ==
  (Queried /\ FiniteParams(args) /\ Filter(args) = <<>>)
    => /\ response.status = 200
       /\ response.total = Cardinality(Matching(Stored, args))
       /\ Returned \subseteq Matching(Stored, args)
       /\ NoRepeat(response.results)

\* C3: for a request with valid parameters the total of the response is the
\* number of distinct providers that are located, match the category filter
\* and lie within the radius, whatever the offset.
C3_TotalCountsMatches ==
  (Queried /\ FiniteParams(args))
    => response.total = Cardinality(Matching(Stored, args))

\* C4: the page at offset k, 0 <= k <= total, holds min(20, total - k) of the
\* matching providers, none repeated.
C4_PageHoldsItsShare ==
  (Queried /\ FiniteParams(args))
    => LET k == OffsetOf(args)
           total == Cardinality(Matching(Stored, args))
       IN (0 <= k /\ k <= total)
            => /\ Len(response.results) = Min(RESULTS_PER_PAGE, total - k)
               /\ Returned \subseteq Matching(Stored, args)
               /\ NoRepeat(response.results)

\* C5: with a non-empty taxonomy code, a located provider within the radius
\* is among the matches iff the code is an element of its category list:
\* every returned provider holds the code and, on the first page (which is
\* large enough for all of them here), none that holds it is left out.
C5_FilterIsMembership ==
  (Queried /\ FiniteParams(args) /\ Filter(args) # <<>>)
    => /\ \A n \in Returned : HasCode(n, Filter(args))
       /\ OffsetOf(args) = 0 => Returned = Matching(Stored, args)

\* C6: the distance is never computed for a provider whose latitude or
\* longitude is null or empty, nor for one the category filter rejects, and
\* no provider without coordinates appears in the results.
C6_NoDistanceForExcluded ==
  /\ \A n \in computed : Located(n) /\ InFilter(n, Filter(args))
  /\ \A n \in Returned : Located(n)

\* C7: if lat or lon is missing or no number, or radius is no number, or
\* offset is no integer, the answer is 400 with an error message, and the
\* request opens no connection and executes no query.
C7_MalformedIs400 ==
  (Done /\ Malformed(args))
    => /\ response.status = 400
       /\ response.error # ""
       /\ opened = 0
       /\ executed = 0

\* C7, the case: a request whose only fault is a decimal offset was answered 400.
C7_Witness ==
  /\ Done
  /\ args.offset = <<49, 46, 53>>
  /\ args.lat \in PlainLat /\ args.lon \in PlainLon /\ args.radius = MISSING
  /\ response.status = 400

\* C10: every connection a request acquires is released before its response
\* is returned, on every exit path.
C10_ConnectionReleased == pc = "idle" => open = {}

====
